---- MODULE Spec2Model ----
(***************************************************************************)
(* The OTA updater of src/main.py (class OTAUpdater, lines 58-171) as a    *)
(* state machine over a flash filesystem, a remote release server and the  *)
(* single control thread that runs the updater's public operations.        *)
(*                                                                         *)
(* A path is a sequence of path components, a file's text a sequence of    *)
(* tokens <<tag, chars>>, a version token a sequence of one-character      *)
(* strings, compared the way Python compares str values.                   *)
(***************************************************************************)
EXTENDS Integers, Sequences, FiniteSets, TLC

VARIABLES
    fs,               \* the flash filesystem: path -> node
    remote,           \* the release server: release, version document, file list
    pc,               \* position of the control thread inside the updater
    op,               \* public operation in flight, or the last one called
    result,           \* how the last call ended ("pending" while in flight)
    current_version,  \* local of the operation in flight
    latest_version,   \* local of the operation in flight
    file_list,        \* local of download_all_files
    idx,              \* position of the for loop of download_all_files
    stack,            \* directories of the rmtree calls in progress
    effects,          \* what the call in flight (or the last call) has done
    prev,             \* the call before the current one, when remembered
    staged,           \* staging tree at the last power loss that cut an install
    dirty,            \* release files were written to staging after its last marker
    power_losses,     \* number of power losses so far
    remote_changes    \* number of changes of the remote release so far

vars == <<fs, remote, pc, op, result, current_version,
          latest_version, file_list, idx, stack, effects, prev, staged,
          dirty, power_losses, remote_changes>>

\* The application around the updater: main, lines 671-791, with
\* save_weight_data, send_data_to_api and delete_all_data
VARIABLES
    main_pc,          \* position of the control thread inside main
    SAVED,            \* the global of line 30
    recent_weights,   \* local of main: the last readings, in grams
    last_stable_time, \* local of main: <<>> for None, or <<t>>
    clock,            \* time.time(), in units of STABILITY_DURATION_S
    data_json,        \* the file data.json
    payload,          \* local data of send_data_to_api
    answer,           \* what the POST of send_data_to_api met, "none" before it
    returned,         \* return value of the last send_data_to_api
    saves,            \* calls of save_weight_data since the last start of main,
                      \* reading at or below the zero threshold, tare or calibration
    last_event        \* what the last pass of the loop did

main_vars == <<main_pc, SAVED, recent_weights, last_stable_time, clock, data_json,
               payload, answer, returned, saves, last_event>>

\* scan_keypad_debounced, lines 185-226, and its clock
VARIABLES
    ticks,            \* time.ticks_ms()
    last_key_time,    \* the global of line 33
    last_key_pressed, \* the global of line 34: <<>> for None, or <<key>>
    held,             \* the keys held down on the keypad
    scan_result,      \* what the call that just returned gave: <<"None">> or
                      \* <<key>>; <<>> when no call has just returned
    reported,         \* the key of the last press reported, <<>> before any
    since_report,     \* milliseconds since that press was reported, capped
    broken            \* a scan since then has seen no key or another key

keypad_vars == <<ticks, last_key_time, last_key_pressed, held, scan_result, reported,
                 since_report, broken>>

app_vars == <<main_vars, keypad_vars>>

----------------------------------------------------------------------------
(* Bounds of the model *)

MaxPowerLosses == 1
MaxRemoteChanges == 1

----------------------------------------------------------------------------
(* Version tokens and their order *)

\* Characters in code point order: '"' < '.' < '0' < '1' < ... < '9' < '\'
CharOrder == <<"\"", ".", "0", "1", "2", "3", "4", "5", "6", "7", "8", "9", "\\">>

Ord(c) == CHOOSE i \in 1..Len(CharOrder) : CharOrder[i] = c

Min(a, b) == IF a <= b THEN a ELSE b

\* Python's a > b on str: the first differing character decides, a proper
\* prefix is smaller.
StrGT(a, b) ==
    \/ \E i \in 1..Min(Len(a), Len(b)) :
          /\ Ord(a[i]) > Ord(b[i])
          /\ \A j \in 1..(i - 1) : a[j] = b[j]
    \/ /\ Len(a) > Len(b)
       /\ \A j \in 1..Len(b) : a[j] = b[j]

V000 == <<"0", ".", "0", ".", "0">>
V100 == <<"1", ".", "0", ".", "0">>
V110 == <<"1", ".", "1", ".", "0">>

\* The comparison with >= in place of >
newer_or_same(latest, current) == ~StrGT(current, latest)

\* latest_version > current_version, lines 81, 91, 100 and 158
newer(latest, current) == StrGT(latest, current)

----------------------------------------------------------------------------
(* ujson *)

Punct(c) == <<"punct", <<c>>>>
Str(chars) == <<"str", chars>>
Raw(chars) == <<"raw", chars>>

KeyVersion == <<"v", "e", "r", "s", "i", "o", "n">>

\* The dict {'version': version} of line 147
version_dict(version) == [k \in {KeyVersion} |-> version]

\* The characters a JSON string literal cannot hold as they are
Escaped == {"\"", "\\"}

\* The body of the string literal ujson.dumps writes for a str
RECURSIVE json_escape(_)
json_escape(chars) ==
    IF chars = <<>> THEN <<>>
    ELSE (IF Head(chars) \in Escaped THEN <<"\\", Head(chars)>> ELSE <<Head(chars)>>)
         \o json_escape(Tail(chars))

\* The str ujson.loads reads from the body of a string literal: err = "none"
\* and the characters, or err = "ValueError" for a bare quote, a backslash at
\* the end and a backslash before a character that forms no escape
RECURSIVE json_unescape(_)
json_unescape(body) ==
    IF body = <<>> THEN [err |-> "none", chars |-> <<>>]
    ELSE IF Head(body) = "\"" THEN [err |-> "ValueError", chars |-> <<>>]
    ELSE IF Head(body) = "\\"
         THEN IF Len(body) < 2 \/ body[2] \notin Escaped
              THEN [err |-> "ValueError", chars |-> <<>>]
              ELSE LET rest == json_unescape(Tail(Tail(body)))
                   IN  IF rest.err # "none" THEN rest
                       ELSE [err |-> "none", chars |-> <<body[2]>> \o rest.chars]
    ELSE LET rest == json_unescape(Tail(body))
         IN  IF rest.err # "none" THEN rest
             ELSE [err |-> "none", chars |-> <<Head(body)>> \o rest.chars]

\* ujson.dumps of a dict with one string key and a string value
ujson_dumps(d) ==
    LET k == CHOOSE x \in DOMAIN d : TRUE
    IN  <<Punct("{"), Str(json_escape(k)), Punct(":"), Str(json_escape(d[k])), Punct("}")>>

\* ujson.loads: err = "none" and the dict (a function on its keys), or
\* err = "ValueError" when the text is no JSON document
ujson_loads(text) ==
    IF Len(text) = 2 /\ text[1] = Punct("{") /\ text[2] = Punct("}")
    THEN [err |-> "none", dict |-> [k \in {} |-> <<>>]]
    ELSE IF /\ Len(text) = 5
            /\ text[1] = Punct("{")
            /\ text[2][1] = "str"
            /\ text[3] = Punct(":")
            /\ text[4][1] = "str"
            /\ text[5] = Punct("}")
            /\ json_unescape(text[2][2]).err = "none"
            /\ json_unescape(text[4][2]).err = "none"
         THEN [err |-> "none",
               dict |-> [k \in {json_unescape(text[2][2]).chars} |->
                            json_unescape(text[4][2]).chars]]
         ELSE [err |-> "ValueError", dict |-> [k \in {} |-> <<>>]]

\* ujson.loads(text)['version']: err = "none" and the value, or the exception
loads_version(text) ==
    LET r == ujson_loads(text)
    IN  IF r.err # "none" THEN [err |-> r.err, value |-> <<>>]
        ELSE IF KeyVersion \in DOMAIN r.dict
             THEN [err |-> "none", value |-> r.dict[KeyVersion]]
             ELSE [err |-> "KeyError", value |-> <<>>]

EmptyObjectText == <<Punct("{"), Punct("}")>>
GarbageText == <<Raw(<<"<", "h", "t", "m", "l", ">">>)>>

----------------------------------------------------------------------------
(* The filesystem: os.listdir, os.ilistdir, os.makedirs, open, os.remove,  *)
(* os.rmdir, os.rename                                                     *)

Dir == [kind |-> "dir", data |-> <<>>]
File(text) == [kind |-> "file", data |-> text]

IsPrefix(d, p) == Len(d) <= Len(p) /\ SubSeq(p, 1, Len(d)) = d

\* Paths strictly below directory d
Under(f, d) == {p \in DOMAIN f : Len(p) > Len(d) /\ IsPrefix(d, p)}

\* os.listdir(d): the names of the entries of d; d = <<>> is the root
listdir(f, d) == {p[Len(d) + 1] : p \in {q \in Under(f, d) : Len(q) = Len(d) + 1}}

\* The non-empty prefixes of a path, the path included
Prefixes(p) == {SubSeq(p, 1, n) : n \in 1..Len(p)}

\* os.makedirs(p, exist_ok=True)
makedirs(f, p) ==
    [q \in DOMAIN f \cup Prefixes(p) |-> IF q \in DOMAIN f THEN f[q] ELSE Dir]

\* open(p, 'w') followed by f.write(text)
write_file(f, p, text) ==
    [q \in DOMAIN f \cup {p} |-> IF q = p THEN File(text) ELSE f[q]]

\* os.remove(p) of a file and os.rmdir(p) of an empty directory
remove(f, p) == [q \in DOMAIN f \ {p} |-> f[q]]

\* A rename that moves the directory and its entries but not what lies deeper
rename_shallow(f, src, dst) ==
    LET moved == {src} \cup {p \in Under(f, src) : Len(p) = Len(src) + 1}
        To(p) == dst \o SubSeq(p, Len(src) + 1, Len(p))
    IN  [q \in (DOMAIN f \ moved) \cup {To(p) : p \in moved} |->
            IF \E p \in moved : To(p) = q
            THEN f[CHOOSE p \in moved : To(p) = q]
            ELSE f[q]]

\* A rename that leaves the source in place
rename_copy(f, src, dst) ==
    LET moved == {src} \cup Under(f, src)
        To(p) == dst \o SubSeq(p, Len(src) + 1, Len(p))
    IN  [q \in DOMAIN f \cup {To(p) : p \in moved} |->
            IF \E p \in moved : To(p) = q
            THEN f[CHOOSE p \in moved : To(p) = q]
            ELSE f[q]]

\* os.rename(src, dst) of a directory onto a free name: src and everything
\* below it move to dst
rename(f, src, dst) ==
    LET moved == {src} \cup Under(f, src)
        To(p) == dst \o SubSeq(p, Len(src) + 1, Len(p))
    IN  [q \in (DOMAIN f \ moved) \cup {To(p) : p \in moved} |->
            IF \E p \in moved : To(p) = q
            THEN f[CHOOSE p \in moved : To(p) = q]
            ELSE f[q]]

\* The entries below directory d, by their paths relative to d
Subtree(f, d) ==
    [r \in {SubSeq(p, Len(d) + 1, Len(p)) : p \in Under(f, d)} |-> f[d \o r]]

----------------------------------------------------------------------------
(* Names set by OTAUpdater.__init__, lines 59-73 *)

main_dir == <<"main">>
new_version_dir == <<"next">>
version_file == <<"version.json">>
staging_marker == new_version_dir \o <<".version">>

\* A get_version whose fallback is the '0' of get_current_version
get_version_zero(f, path) ==
    IF path \notin DOMAIN f THEN <<"0">>
    ELSE IF f[path].kind # "file" THEN <<"0">>
    ELSE LET r == loads_version(f[path].data)
         IN  IF r.err = "none" THEN r.value ELSE <<"0">>

\* get_version, lines 113-120: any failure yields '0.0.0'
get_version(f, path) ==
    IF path \notin DOMAIN f THEN V000
    ELSE IF f[path].kind # "file" THEN V000
    ELSE LET r == loads_version(f[path].data)
         IN  IF r.err = "none" THEN r.value ELSE V000

----------------------------------------------------------------------------
(* The release server *)

RemoteVersions == {V100, V110}
RemoteDocKinds == {"ok", "nofield", "garbage"}

FileA == <<"a.txt">>
FileB == <<"dir", "b.txt">>
Manifests == {<<FileA, FileB>>, <<FileA>>}

\* A server whose version document is bad is one server, whatever it holds
Remotes ==
    [release : RemoteVersions, doc : {"ok"}, files : Manifests] \cup
    [release : {V100}, doc : RemoteDocKinds \ {"ok"}, files : {<<FileA>>}]

\* response.text of requests.get(self.version_url), line 110
version_response(r) ==
    IF r.doc = "ok" THEN ujson_dumps(version_dict(r.release))
    ELSE IF r.doc = "nofield" THEN EmptyObjectText
    ELSE GarbageText

\* response.text of a release file served with status 200, line 137
file_response(r, file) == <<Raw(r.release)>>

\* A get_latest_version that absorbs a bad document the way get_version does
get_latest_version_default(r) ==
    LET v == loads_version(version_response(r))
    IN  IF v.err = "none" THEN v ELSE [err |-> "none", value |-> V000]

\* get_latest_version, lines 108-111
get_latest_version(r) == loads_version(version_response(r))

----------------------------------------------------------------------------
(* Initial state *)

OldText == <<Raw(<<"o", "l", "d">>)>>

\* The active tree as first deployed: files at three nesting depths
OldTree ==
    [p \in {main_dir,
            main_dir \o <<"a.txt">>,
            main_dir \o <<"dir">>,
            main_dir \o <<"dir", "sub">>,
            main_dir \o <<"dir", "sub", "c.txt">>} |->
        IF p \in {main_dir \o <<"a.txt">>, main_dir \o <<"dir", "sub", "c.txt">>}
        THEN File(OldText) ELSE Dir]

ActiveVersions == {V100, V110}

InitialFilesystems ==
    {OldTree} \cup
    {write_file(OldTree, version_file, ujson_dumps(version_dict(v))) : v \in ActiveVersions}

NoVersion == <<>>
NoCut == [cut |-> FALSE, tree |-> <<>>]
NoCall == [op |-> "none", result |-> "none", renamed |-> FALSE]

\* The updater with no operation called
updater_idle ==
    /\ pc = "idle"
    /\ op = "none"
    /\ result = "none"
    /\ current_version = NoVersion
    /\ latest_version = NoVersion
    /\ file_list = <<>>
    /\ idx = 0
    /\ stack = <<>>
    /\ effects = {}
    /\ prev = NoCall
    /\ staged = NoCut
    /\ dirty = FALSE
    /\ power_losses = 0
    /\ remote_changes = 0

\* The keypad before any scan: the values of lines 33-34, no key held
keypad_not_scanned ==
    /\ ticks = 0
    /\ last_key_time = 0
    /\ last_key_pressed = <<>>
    /\ held = {}
    /\ scan_result = <<>>
    /\ reported = <<>>
    /\ since_report = 0
    /\ broken = FALSE

\* The application before main has run: the value of line 30, no data file,
\* nothing measured or sent
main_not_started ==
    /\ main_pc = "off"
    /\ SAVED = FALSE
    /\ recent_weights = <<>>
    /\ last_stable_time = <<>>
    /\ clock = 0
    /\ data_json = [kind |-> "absent", entries |-> <<>>]
    /\ payload = <<>>
    /\ answer = [kind |-> "none", code |-> 0]
    /\ returned = "none"
    /\ saves = 0
    /\ last_event = "none"

Init ==
    /\ main_not_started
    /\ keypad_not_scanned
    /\ fs \in InitialFilesystems
    /\ remote \in Remotes
    /\ pc = "idle"
    /\ op = "none"
    /\ result = "none"
    /\ current_version = NoVersion
    /\ latest_version = NoVersion
    /\ file_list = <<>>
    /\ idx = 0
    /\ stack = <<>>
    /\ effects = {}
    /\ prev = NoCall
    /\ staged = NoCut
    /\ dirty = FALSE
    /\ power_losses = 0
    /\ remote_changes = 0

----------------------------------------------------------------------------
(* Calls and returns of the public operations *)

\* The calls kept as the call before the current one, when the same
\* operation is called again: every call of
\* check_for_update_to_install_during_next_reboot, and a call of
\* download_and_install_update_if_available that ended in the restart
Remembered(o, res) ==
    \/ o = "resume"
    \/ o = "download_and_install" /\ res = "reset"

\* A public operation is called from the idle control loop
Call(o) ==
    /\ pc = "idle"
    /\ op' = o
    /\ prev' = IF Remembered(op, result) /\ o = op
               THEN [op |-> op, result |-> result, renamed |-> "rename" \in effects]
               ELSE NoCall
    /\ staged' = IF o = "resume" /\ result = "power_loss" THEN staged ELSE NoCut

\* The operation in flight ends: it returns, raises, or the device restarts
End(res) ==
    /\ pc' = "idle"
    /\ result' = res
    /\ current_version' = NoVersion
    /\ latest_version' = NoVersion
    /\ file_list' = <<>>
    /\ idx' = 0
    /\ stack' = <<>>

Env == <<remote, power_losses, remote_changes, app_vars>>

\* What a step that writes no release file and no marker leaves alone
Rest == <<Env, dirty>>

\* A step inside the operation in flight
Inside == UNCHANGED <<op, prev, staged>>

\* The staging marker written with the version as bare text, no JSON document
marker_written_bare(f, version) ==
    write_file(makedirs(f, new_version_dir), staging_marker, <<Raw(version)>>)

\* The filesystem after create_version_file(version), lines 147-150
marker_written(f, version) ==
    write_file(makedirs(f, new_version_dir), staging_marker,
               ujson_dumps(version_dict(version)))

\* The guard without its version comparison
update_is_staged_unordered(f) ==
    /\ new_version_dir[1] \in listdir(f, <<>>)
    /\ ".version" \in listdir(f, new_version_dir)

\* The guard reduced to its first condition
staging_dir_exists(f) == new_version_dir[1] \in listdir(f, <<>>)

\* The guard with a comparison that lets an equal version pass
update_is_staged_or_same(f) ==
    /\ new_version_dir[1] \in listdir(f, <<>>)
    /\ ".version" \in listdir(f, new_version_dir)
    /\ ~StrGT(get_version(f, version_file), get_version(f, staging_marker))

\* The guard shared by lines 77-81 and lines 154-158
update_is_staged(f) ==
    /\ new_version_dir[1] \in listdir(f, <<>>)
    /\ ".version" \in listdir(f, new_version_dir)
    /\ newer(get_version(f, staging_marker), get_version(f, version_file))

\* os.path.dirname(file)
dirname(file) == SubSeq(file, 1, Len(file) - 1)

----------------------------------------------------------------------------
(* The operations of OTAUpdater, one action per step between two accesses  *)
(* to the flash or the network                                             *)

\* check_for_update, lines 96-100
check_for_update ==
    /\ Call("check_for_update")
    /\ effects' = {}
    /\ LET current == get_version(fs, version_file)
           latest == get_latest_version(remote)
       IN  IF latest.err # "none"
           THEN End("raised")
           ELSE End(IF newer(latest.value, current) THEN "true" ELSE "false")
    /\ UNCHANGED <<fs, Rest>>

\* download_and_install_update_if_available, lines 88-89, up to the
\* get_latest_version of download_latest_version, line 104
download_and_install_update_if_available ==
    /\ Call("download_and_install")
    /\ effects' = {}
    /\ LET latest == get_latest_version(remote)
       IN  IF latest.err # "none"
           THEN End("raised")
           ELSE /\ pc' = "get_file_list"
                /\ result' = "pending"
                /\ current_version' = get_version(fs, version_file)
                /\ latest_version' = latest.value
                /\ UNCHANGED <<file_list, idx, stack>>
    /\ UNCHANGED <<fs, Rest>>

\* A loop that leaves for create_version_file after any entry
after_turn_early(turns, entries) ==
    IF turns = 0 /\ entries > 0 THEN "download_file" ELSE "create_version_file"

\* Where download_all_files stands once it has been through the first turns
\* of its loop over a list of that many entries, lines 125-127
after_turn(turns, entries) ==
    IF turns < entries THEN "download_file" ELSE "create_version_file"

\* A download_file that lets no failure pass, a status other than 200 included
raises_on_any_failure(outcome) == outcome # "200"

\* A download_file that absorbs a failed write as it does a status
raises_on_transport_only(outcome) == outcome = "transport_error"

\* The outcomes of download_file that raise, lines 137-141: requests.get,
\* os.makedirs, open and write are in no try block; a status other than 200
\* is printed, lines 142-143
raises(outcome) == outcome \in {"transport_error", "write_error"}

\* get_file_list, lines 124 and 129-132
get_file_list ==
    /\ pc = "get_file_list"
    /\ file_list' = remote.files
    /\ idx' = 1
    /\ pc' = after_turn(0, Len(remote.files))
    /\ effects' = effects \cup {"fetch_list"}
    /\ Inside
    /\ UNCHANGED <<fs, Rest, result, current_version, latest_version, stack>>

\* One turn of the loop of download_all_files, lines 125-126, with
\* download_file, lines 134-143
download_file ==
    /\ pc = "download_file"
    /\ Inside
    /\ LET file == file_list[idx]
           target == new_version_dir \o file
           made == makedirs(fs, new_version_dir \o dirname(file))
           go_on ==
               /\ idx' = idx + 1
               /\ pc' = after_turn(idx, Len(file_list))
               /\ UNCHANGED <<result, current_version, latest_version, file_list, stack>>
       IN  \E outcome \in {"200", "404", "transport_error", "write_error"} :
              \/ /\ outcome = "200"
                 /\ fs' = write_file(made, target, file_response(remote, file))
                 /\ dirty' = TRUE
                 /\ effects' = effects \cup {"fetch_file", "stage_write"}
                 /\ IF raises(outcome) THEN End("raised") ELSE go_on
              \/ /\ outcome = "404"
                 /\ UNCHANGED <<fs, dirty>>
                 /\ effects' = effects \cup {"fetch_file"}
                 /\ IF raises(outcome) THEN End("raised") ELSE go_on
              \/ /\ outcome = "transport_error"
                 /\ UNCHANGED <<fs, dirty>>
                 /\ effects' = effects \cup {"fetch_file", "transport_error"}
                 /\ IF raises(outcome) THEN End("raised") ELSE go_on
              \/ /\ outcome = "write_error"
                 /\ fs' = write_file(made, target, <<>>)
                 /\ dirty' = TRUE
                 /\ effects' = effects \cup {"fetch_file", "stage_write", "write_error"}
                 /\ IF raises(outcome) THEN End("raised") ELSE go_on
    /\ UNCHANGED Env

\* create_version_file, lines 127 and 145-150
create_version_file ==
    /\ pc = "create_version_file"
    /\ fs' = marker_written(fs, latest_version)
    /\ effects' = effects \cup {"stage_write", "marker_write"}
    /\ dirty' = FALSE
    /\ pc' = "compare"
    /\ Inside
    /\ UNCHANGED <<Env, result, current_version, latest_version, file_list, idx, stack>>

\* The comparison of download_and_install_update_if_available, lines 91-94
compare_versions ==
    /\ pc = "compare"
    /\ IF newer(latest_version, current_version)
       THEN /\ pc' = "install"
            /\ UNCHANGED <<result, current_version, latest_version, file_list, idx, stack>>
       ELSE End("false")
    /\ Inside
    /\ UNCHANGED <<fs, Rest, effects>>

\* check_for_update_to_install_during_next_reboot, lines 75-84
check_for_update_to_install_during_next_reboot ==
    /\ Call("resume")
    /\ effects' = {}
    /\ IF update_is_staged(fs)
       THEN /\ pc' = "install"
            /\ result' = "pending"
            /\ UNCHANGED <<current_version, latest_version, file_list, idx, stack>>
       ELSE End("false")
    /\ UNCHANGED <<fs, Rest>>

\* install_update_if_available, lines 152-159: the three conditions, then
\* the call of rmtree(self.main_dir); without an update staged it returns
\* None, and download_and_install_update_if_available, when it is the caller,
\* returns True
install_update_if_available ==
    /\ pc = "install"
    /\ IF update_is_staged(fs)
       THEN /\ pc' = "rmtree"
            /\ stack' = <<main_dir>>
            /\ UNCHANGED <<result, current_version, latest_version, file_list, idx>>
       ELSE End(IF op = "install" THEN "none" ELSE "true")
    /\ Inside
    /\ UNCHANGED <<fs, Rest, effects>>

\* One step of rmtree, lines 163-171, in the innermost call in progress:
\* os.ilistdir raises when the directory is missing; an entry that is a
\* directory is entered, any other entry removed, and the directory itself
\* removed once it is empty
rmtree ==
    /\ pc = "rmtree"
    /\ Inside
    /\ LET directory == stack[Len(stack)]
           keep == UNCHANGED <<result, current_version, latest_version, file_list, idx>>
       IN  IF directory \notin DOMAIN fs
           THEN /\ End("raised")
                /\ UNCHANGED <<fs, effects>>
           ELSE IF listdir(fs, directory) # {}
           THEN \E entry \in listdir(fs, directory) :
                   LET path == directory \o <<entry>>
                   IN  IF fs[path].kind = "dir"
                       THEN /\ stack' = Append(stack, path)
                            /\ pc' = "rmtree"
                            /\ keep
                            /\ UNCHANGED <<fs, effects>>
                       ELSE /\ fs' = remove(fs, path)
                            /\ effects' = effects \cup {"delete"}
                            /\ pc' = "rmtree"
                            /\ keep
                            /\ UNCHANGED stack
           ELSE /\ fs' = remove(fs, directory)
                /\ effects' = effects \cup {"delete"}
                /\ stack' = SubSeq(stack, 1, Len(stack) - 1)
                /\ pc' = IF Len(stack) = 1 THEN "rename" ELSE "rmtree"
                /\ keep
    /\ UNCHANGED Rest

\* An install that goes back to its caller after the rename
after_rename_return == "compare"

\* What follows os.rename in install_update_if_available: machine.reset(),
\* line 161
after_rename == "reset"

\* os.rename(self.new_version_dir, self.main_dir), line 160
os_rename ==
    /\ pc = "rename"
    /\ Inside
    /\ IF new_version_dir \notin DOMAIN fs \/ main_dir \in DOMAIN fs
       THEN /\ End("raised")
            /\ UNCHANGED <<fs, effects, dirty>>
       ELSE /\ fs' = rename(fs, new_version_dir, main_dir)
            /\ effects' = effects \cup {"rename"}
            /\ dirty' = FALSE
            /\ pc' = after_rename
            /\ UNCHANGED <<result, current_version, latest_version, file_list, idx, stack>>
    /\ UNCHANGED Env

\* machine.reset(), line 161: the device restarts and the call never returns
machine_reset ==
    /\ pc = "reset"
    /\ effects' = effects \cup {"restart"}
    /\ End("reset")
    /\ Inside
    /\ UNCHANGED <<fs, Rest>>

----------------------------------------------------------------------------
(* The environment *)

\* Between the writing of the staging marker and the restart of an install
InstallWindow == {"compare", "install", "rmtree", "rename"}

\* The device loses power while an operation is in flight and boots again
power_loss ==
    /\ pc # "idle"
    /\ power_losses < MaxPowerLosses
    /\ power_losses' = power_losses + 1
    /\ End("power_loss")
    /\ staged' = IF pc \in InstallWindow /\ update_is_staged(fs)
                 THEN [cut |-> TRUE, tree |-> Subtree(fs, new_version_dir)]
                 ELSE NoCut
    /\ UNCHANGED <<fs, remote, remote_changes, op, effects, prev, dirty, app_vars>>

\* Between two operations the server publishes another release, or starts
\* serving a bad version document
remote_change ==
    /\ pc = "idle"
    /\ remote_changes < MaxRemoteChanges
    /\ remote_changes' = remote_changes + 1
    /\ remote' \in Remotes \ {remote}
    /\ UNCHANGED <<fs, pc, op, result, current_version, latest_version, file_list,
                   idx, stack, effects, prev, staged, dirty, power_losses, app_vars>>

Next ==
    \/ check_for_update
    \/ download_and_install_update_if_available
    \/ get_file_list
    \/ download_file
    \/ create_version_file
    \/ compare_versions
    \/ check_for_update_to_install_during_next_reboot
    \/ install_update_if_available
    \/ rmtree
    \/ os_rename
    \/ machine_reset
    \/ power_loss
    \/ remote_change

Spec == Init /\ [][Next]_vars

----------------------------------------------------------------------------
(* The methods called one at a time: get_version, create_version_file,     *)
(* check_for_update and install_update_if_available on markers of every    *)
(* shape and on version tokens that need escaping                          *)

MaxTokenLen == 2

TokenChars == {"\"", "1", "\\"}

\* The version tokens of up to MaxTokenLen characters, and the release ones
Tokens ==
    UNION {[1..n -> TokenChars] : n \in 0..MaxTokenLen} \cup {V000, V100, V110}

\* The two files get_version is called on, lines 79-80, 88, 98 and 156-157
MarkerPaths == {version_file, staging_marker}

\* What open(version_file) can find: nothing, a directory, an empty file, a
\* text that is no JSON, a document without the field, a document with
\* another field, a version
ActiveMarkers ==
    {File(<<>>), File(GarbageText), File(EmptyObjectText),
     File(ujson_dumps([k \in {<<"n">>} |-> V110])), Dir} \cup
    {File(ujson_dumps(version_dict(v))) : v \in {<<"1">>, V100}}

\* The staging directory before any marker is written: absent, empty, or
\* holding a release file
Stagings ==
    {<<>>,
     [p \in {new_version_dir} |-> Dir],
     [p \in {new_version_dir, new_version_dir \o FileA} |->
         IF p = new_version_dir THEN Dir ELSE File(<<Raw(V100)>>)]}

UnitFilesystems ==
    LET With(f, g) == [p \in DOMAIN f \cup DOMAIN g |->
                          IF p \in DOMAIN g THEN g[p] ELSE f[p]]
    IN  {With(OldTree, s) : s \in Stagings} \cup
        {With(With(OldTree, s), [p \in {version_file} |-> m]) :
            s \in Stagings, m \in ActiveMarkers}

\* The servers: a release below '0.0.0', '0.0.0' itself, two above it, and a
\* bad version document
UnitRemotes ==
    [release : {<<"0">>, V000, <<"0", ".", "1">>, V110},
     doc : {"ok"}, files : {<<FileA>>}] \cup
    [release : {V100}, doc : {"garbage"}, files : {<<FileA>>}]

UnitInit ==
    /\ main_not_started
    /\ keypad_not_scanned
    /\ fs \in UnitFilesystems
    /\ remote \in UnitRemotes
    /\ pc = "idle"
    /\ op = "none"
    /\ result = "none"
    /\ current_version = NoVersion
    /\ latest_version = NoVersion
    /\ file_list = <<>>
    /\ idx = 0
    /\ stack = <<>>
    /\ effects = {}
    /\ prev = NoCall
    /\ staged = NoCut
    /\ dirty = FALSE
    /\ power_losses = 0
    /\ remote_changes = 0

\* The methods are called on their own until the device restarts
Direct(o) == result # "reset" /\ Call(o)

\* get_version(path) called on its own, lines 113-120; current_version holds
\* the value returned, and latest_version the token of a create_version_file
\* that was the call before
get_version_call(path) ==
    /\ Direct("get_version")
    /\ effects' = {}
    /\ pc' = "idle"
    /\ result' = "returned"
    /\ current_version' = get_version(fs, path)
    /\ latest_version' = IF op = "create_version_file" /\ path = staging_marker
                         THEN latest_version ELSE NoVersion
    /\ UNCHANGED <<fs, Rest, file_list, idx, stack>>

get_version_calls == \E path \in MarkerPaths : get_version_call(path)

\* create_version_file(version) called on its own, lines 145-150;
\* latest_version holds the token passed
create_version_file_call ==
    \E version \in Tokens :
        /\ Direct("create_version_file")
        /\ fs' = marker_written(fs, version)
        /\ effects' = {"stage_write", "marker_write"}
        /\ dirty' = FALSE
        /\ pc' = "idle"
        /\ result' = "returned"
        /\ current_version' = NoVersion
        /\ latest_version' = version
        /\ UNCHANGED <<Env, file_list, idx, stack>>

\* install_update_if_available called on its own, line 152
install_update_if_available_call ==
    /\ Direct("install")
    /\ effects' = {}
    /\ pc' = "install"
    /\ result' = "pending"
    /\ current_version' = NoVersion
    /\ latest_version' = NoVersion
    /\ UNCHANGED <<fs, Rest, file_list, idx, stack>>

UnitNext ==
    \/ get_version_calls
    \/ create_version_file_call
    \/ result # "reset" /\ check_for_update
    \/ install_update_if_available_call
    \/ install_update_if_available
    \/ rmtree
    \/ os_rename
    \/ machine_reset

UnitSpec == UnitInit /\ [][UnitNext]_vars

----------------------------------------------------------------------------
(* The application: main (lines 671-791) with save_weight_data (327-343),  *)
(* delete_all_data (410-435), connect_wifi (538-557) and send_data_to_api  *)
(* (559-594). Weights are in grams, time.time() in tenths of a second.     *)

MaxClock == 10
MaxEntries == 2

STABILITY_THRESHOLD_G == 200
STABILITY_DURATION_S == 5
ZERO_THRESHOLD_G == 100
WindowLength == 10
MinSamples == 5

\* sensor.get_stable_weight: None (<<>>) or a weight
Readings == {<<>>, <<50>>, <<100>>, <<1000>>, <<1250>>}

\* How far time.time() moves between two passes of the loop
Durations == {0, 5}

\* The keys of the keypad, KEYS[c_idx][r_idx]
KEYS == <<<<"1", "4", "7", "M">>,
          <<"2", "5", "8", "0">>,
          <<"3", "6", "9", "C">>,
          <<"F1", "F2", "F3", "E">>>>

\* What scan_keypad_debounced may hand to main: None (<<>>) or a key
MainKeys == {<<>>} \cup {<<KEYS[c][r]>> : c \in 1..4, r \in 1..4}

\* Status codes an API answer may carry
StatusCodes == {199, 200, 299, 300, 500}

NoAnswer == [kind |-> "none", code |-> 0]

\* data.json: missing, or a text - empty, or what ujson.dump wrote for a list
NoDataFile == [kind |-> "absent", entries |-> <<>>]
EmptyText == [kind |-> "empty", entries |-> <<>>]
DumpOf(entries) == [kind |-> "list", entries |-> entries]

RECURSIVE sum(_)
sum(ws) == IF ws = <<>> THEN 0 ELSE Head(ws) + sum(Tail(ws))

min(ws) == CHOOSE w \in {ws[i] : i \in DOMAIN ws} : \A i \in DOMAIN ws : w <= ws[i]
max(ws) == CHOOSE w \in {ws[i] : i \in DOMAIN ws} : \A i \in DOMAIN ws : w >= ws[i]

\* round(weight_kg, 3): to the gram
round(total, n) == (2 * total + n) \div (2 * n)

\* Lines 329-332: a missing file or a text that is no JSON reads as []
loaded(file) == IF file.kind = "list" THEN file.entries ELSE <<>>

\* Line 583
status_any_below_300(code) == code < 300
is_success(code) == 200 <= code /\ code < 300

\* Line 744
may_measure_always(saved) == TRUE
may_measure(saved) == ~saved

\* Lines 714-715: data.json after "if send_data_to_api(): delete_all_data()",
\* the outcomes of the steps send_data_to_api .. delete_all_data below
sent_and_deleted(file) ==
    {file, NoDataFile}
        \cup (IF file.kind = "list" /\ file.entries # <<>>
              THEN {DumpOf(<<>>), EmptyText} ELSE {})

\* The device with the updater idle and the release installed
updater_at_rest ==
    /\ fs = OldTree
    /\ remote = CHOOSE r \in Remotes : TRUE
    /\ updater_idle

\* data.json as earlier runs can have left it
DataFiles ==
    {NoDataFile, EmptyText}
        \cup {DumpOf(entries) : entries \in UNION {[1..n -> {1000, 1250}] : n \in 0..MaxEntries}}

MainInit ==
    /\ updater_at_rest
    /\ keypad_not_scanned
    /\ main_pc = "loop"
    /\ SAVED = FALSE
    /\ recent_weights = <<>>
    /\ last_stable_time = <<>>
    /\ clock = 0
    /\ data_json \in {NoDataFile, EmptyText, DumpOf(<<>>), DumpOf(<<1000>>)}
    /\ payload = <<>>
    /\ answer = NoAnswer
    /\ returned = "none"
    /\ saves = 0
    /\ last_event = "start"

OutsideMain == UNCHANGED <<vars, keypad_vars>>

Measuring == UNCHANGED <<payload, answer, returned>>

\* Lines 698-724: one key from the keypad and its handler
handle_key ==
    /\ main_pc = "loop"
    /\ \E key \in MainKeys :
        \/ /\ key = <<"C">>
           /\ SAVED' = FALSE
           /\ saves' = 0
           /\ last_event' = "tare"
           /\ main_pc' = "weigh"
           /\ UNCHANGED data_json
        \/ /\ key = <<"M">>
           /\ SAVED' = FALSE
           /\ saves' = 0
           /\ last_event' = "calibration"
           /\ main_pc' = "weigh"
           /\ UNCHANGED data_json
        \/ /\ key = <<"F2">>
           /\ data_json' \in sent_and_deleted(data_json)
           /\ main_pc' = "weigh"
           /\ UNCHANGED <<SAVED, saves, last_event>>
        \/ /\ key \in {<<"F3">>, <<"0">>}
           /\ main_pc' \in {"weigh", "reset"}
           /\ UNCHANGED <<SAVED, saves, last_event, data_json>>
        \/ /\ key \notin {<<"C">>, <<"M">>, <<"F2">>, <<"F3">>, <<"0">>}
           /\ main_pc' = "weigh"
           /\ UNCHANGED <<SAVED, saves, last_event, data_json>>
    /\ UNCHANGED <<recent_weights, last_stable_time, clock>>
    /\ Measuring
    /\ OutsideMain

\* Lines 726-791: one reading of the sensor, and save_weight_data when the
\* weight has been stable for long enough
read_and_process_weight ==
    /\ main_pc = "weigh"
    /\ \E weight \in Readings, dt \in Durations, written \in {"yes", "no", "cut"} :
        LET appended == Append(recent_weights, weight[1])
            window == IF Len(appended) > WindowLength THEN Tail(appended) ELSE appended
            since == IF last_stable_time = <<>> THEN clock' ELSE last_stable_time[1]
            stable_for == clock' - since
            stable_weight == round(sum(window), Len(window))
            data == Append(loaded(data_json), stable_weight)
            idle == written = "yes" /\ UNCHANGED <<data_json, saves>>
        IN
        /\ clock + dt <= MaxClock
        /\ clock' = clock + dt
        /\ IF weight = <<>>
           THEN /\ idle
                /\ main_pc' = "loop"
                /\ last_event' = "error"
                /\ UNCHANGED <<SAVED, recent_weights, last_stable_time>>
           ELSE IF weight[1] <= ZERO_THRESHOLD_G
           THEN /\ idle
                /\ SAVED' = FALSE
                /\ recent_weights' = <<>>
                /\ last_stable_time' = <<>>
                /\ saves' = 0
                /\ main_pc' = "loop"
                /\ last_event' = "zero"
           ELSE IF ~may_measure(SAVED)
           THEN /\ idle
                /\ main_pc' = "loop"
                /\ last_event' = "remove"
                /\ UNCHANGED <<SAVED, recent_weights, last_stable_time>>
           ELSE IF Len(window) < MinSamples
           THEN /\ idle
                /\ recent_weights' = window
                /\ main_pc' = "loop"
                /\ last_event' = "sampling"
                /\ UNCHANGED <<SAVED, last_stable_time>>
           ELSE IF max(window) - min(window) >= STABILITY_THRESHOLD_G
           THEN /\ idle
                /\ recent_weights' = window
                /\ last_stable_time' = <<>>
                /\ main_pc' = "loop"
                /\ last_event' = "unstable"
                /\ UNCHANGED SAVED
           ELSE IF stable_for < STABILITY_DURATION_S
           THEN /\ idle
                /\ recent_weights' = window
                /\ last_stable_time' = <<since>>
                /\ main_pc' = "loop"
                /\ last_event' = "stable"
                /\ UNCHANGED SAVED
           ELSE /\ Len(data) <= MaxEntries
                /\ saves' = saves + 1
                /\ \/ /\ written = "yes"
                      /\ data_json' = DumpOf(data)
                      /\ SAVED' = TRUE
                      /\ recent_weights' = <<>>
                      /\ last_stable_time' = <<>>
                      /\ main_pc' = "loop"
                      /\ last_event' = "save"
                   \/ /\ written \in {"no", "cut"}
                      /\ data_json' = IF written = "cut" THEN EmptyText ELSE data_json
                      /\ recent_weights' = window
                      /\ last_stable_time' = <<since>>
                      /\ main_pc' = "stopped"
                      /\ last_event' = "raised"
                      /\ UNCHANGED SAVED
    /\ Measuring
    /\ OutsideMain

Sending == UNCHANGED <<SAVED, recent_weights, last_stable_time, clock, saves, last_event>>

\* Lines 561-572: the data to send is read; nothing to send is a success
send_data_to_api ==
    /\ main_pc = "send_data_to_api"
    /\ \E readable \in BOOLEAN :
        IF ~readable
        THEN /\ returned' = "false"
             /\ payload' = <<>>
             /\ main_pc' = "sent"
        ELSE IF data_json.kind # "list" \/ data_json.entries = <<>>
        THEN /\ returned' = "true"
             /\ payload' = <<>>
             /\ main_pc' = "sent"
        ELSE /\ payload' = data_json.entries
             /\ main_pc' = "connect_wifi"
             /\ UNCHANGED returned
    /\ answer' = NoAnswer
    /\ UNCHANGED data_json
    /\ Sending
    /\ OutsideMain

\* Lines 538-557 and 574-576
connect_wifi ==
    /\ main_pc = "connect_wifi"
    /\ \E isconnected \in BOOLEAN :
        IF isconnected
        THEN /\ main_pc' = "post"
             /\ UNCHANGED <<answer, returned>>
        ELSE /\ answer' = [kind |-> "no_wifi", code |-> 0]
             /\ returned' = "false"
             /\ main_pc' = "sent"
    /\ UNCHANGED <<data_json, payload>>
    /\ Sending
    /\ OutsideMain

\* Lines 578-583 and 588-594: the POST of the data read, and its answer
requests_post ==
    /\ main_pc = "post"
    /\ \/ /\ answer' = [kind |-> "raised", code |-> 0]
          /\ returned' = "false"
          /\ main_pc' = "sent"
       \/ \E status_code \in StatusCodes :
            /\ answer' = [kind |-> "status", code |-> status_code]
            /\ IF is_success(status_code)
               THEN /\ main_pc' = "clear"
                    /\ UNCHANGED returned
               ELSE /\ returned' = "false"
                    /\ main_pc' = "sent"
    /\ UNCHANGED <<data_json, payload>>
    /\ Sending
    /\ OutsideMain

\* Lines 584-587 and 592-594: the file is cleared; a failure to open or to
\* write it is caught
clear_data_file ==
    /\ main_pc = "clear"
    /\ \E written \in {"yes", "no", "cut"} :
        /\ data_json' = CASE written = "yes" -> DumpOf(<<>>)
                          [] written = "cut" -> EmptyText
                          [] written = "no" -> data_json
        /\ returned' = IF written = "yes" THEN "true" ELSE "false"
    /\ main_pc' = "sent"
    /\ UNCHANGED <<payload, answer>>
    /\ Sending
    /\ OutsideMain

\* Lines 714-715 and 410-435: main asks whether to delete after a send that
\* returned true; E removes the file, C keeps it
delete_all_data ==
    /\ main_pc = "sent"
    /\ \E key \in {<<"E">>, <<"C">>} :
        data_json' = IF returned = "true" /\ key = <<"E">> THEN NoDataFile ELSE data_json
    /\ payload' = <<>>
    /\ answer' = NoAnswer
    /\ returned' = "none"
    /\ main_pc' = "weigh"
    /\ Sending
    /\ OutsideMain

\* Lines 671-695 after a restart: machine.reset in serve_request or in the
\* updater, or a power cycle after main ended with an exception
main ==
    /\ main_pc \in {"reset", "stopped"}
    /\ main_pc' = "loop"
    /\ SAVED' = FALSE
    /\ recent_weights' = <<>>
    /\ last_stable_time' = <<>>
    /\ clock' = 0
    /\ saves' = 0
    /\ last_event' = "start"
    /\ UNCHANGED data_json
    /\ Measuring
    /\ OutsideMain

MainNext ==
    \/ handle_key
    \/ read_and_process_weight
    \/ main

all_vars == <<vars, app_vars>>

MainSpec == MainInit /\ [][MainNext]_all_vars

\* Line 714: send_data_to_api called on every data file, and the
\* delete_all_data that follows it
SendInit ==
    /\ updater_at_rest
    /\ keypad_not_scanned
    /\ main_pc = "send_data_to_api"
    /\ SAVED = FALSE
    /\ recent_weights = <<>>
    /\ last_stable_time = <<>>
    /\ clock = 0
    /\ data_json \in DataFiles
    /\ payload = <<>>
    /\ answer = NoAnswer
    /\ returned = "none"
    /\ saves = 0
    /\ last_event = "start"

SendNext ==
    \/ send_data_to_api
    \/ connect_wifi
    \/ requests_post
    \/ clear_data_file
    \/ delete_all_data

SendSpec == SendInit /\ [][SendNext]_all_vars

----------------------------------------------------------------------------
(* The keypad: scan_keypad_debounced, lines 185-226. time.ticks_ms() counts *)
(* milliseconds modulo a power of two.                                     *)

TicksBits == 10
TICKS_PERIOD == 2 ^ TicksBits

DEBOUNCE_TIME_MS == 150

\* Milliseconds between two things that happen on the keypad
Elapses == {64, 128}

\* The keys a user holds down
HeldKeys == {"2", "4"}

\* time.ticks_diff: the signed difference of two tick counts
ticks_diff(end, start) ==
    ((end - start + TICKS_PERIOD \div 2) % TICKS_PERIOD) - TICKS_PERIOD \div 2

\* Line 192
debounced_never(current_time, last) == FALSE
debounced(current_time, last) == ticks_diff(current_time, last) < DEBOUNCE_TIME_MS

\* Lines 196-207: rows in the outer loop, columns in the inner one
ScanOrder == [i \in 1..16 |-> KEYS[((i - 1) % 4) + 1][((i - 1) \div 4) + 1]]

\* The first key the scan meets, None (<<>>) when no key is down
pressed_key(down) ==
    IF \A i \in 1..16 : ScanOrder[i] \notin down
    THEN <<>>
    ELSE <<ScanOrder[CHOOSE i \in 1..16 :
                /\ ScanOrder[i] \in down
                /\ \A j \in 1..(i - 1) : ScanOrder[j] \notin down]>>

KeypadInit ==
    /\ updater_at_rest
    /\ main_not_started
    /\ ticks \in {0, TICKS_PERIOD \div 2, TICKS_PERIOD - 64}
    /\ last_key_time = 0
    /\ last_key_pressed = <<>>
    /\ held = {}
    /\ scan_result = <<>>
    /\ reported = <<>>
    /\ since_report = 0
    /\ broken = FALSE

OutsideKeypad == UNCHANGED <<vars, main_vars>>

\* A key goes down or up
keys_change ==
    /\ held' \in (SUBSET HeldKeys) \ {held}
    /\ scan_result' = <<>>
    /\ UNCHANGED <<ticks, last_key_time, last_key_pressed, reported, since_report, broken>>
    /\ OutsideKeypad

\* The caller sleeps or works between two scans
time_passes ==
    /\ \E dt \in Elapses :
        /\ ticks' = (ticks + dt) % TICKS_PERIOD
        /\ since_report' = IF since_report + dt >= DEBOUNCE_TIME_MS
                           THEN DEBOUNCE_TIME_MS ELSE since_report + dt
    /\ scan_result' = <<>>
    /\ UNCHANGED <<last_key_time, last_key_pressed, held, reported, broken>>
    /\ OutsideKeypad

scan_keypad_debounced ==
    LET current_time == ticks
        pressed == pressed_key(held)
    IN
    /\ IF debounced(current_time, last_key_time)
       THEN /\ scan_result' = <<"None">>
            /\ UNCHANGED <<last_key_time, last_key_pressed, reported, since_report, broken>>
       ELSE IF pressed = <<>>
       THEN /\ last_key_pressed' = <<>>
            /\ scan_result' = <<"None">>
            /\ broken' = TRUE
            /\ UNCHANGED <<last_key_time, reported, since_report>>
       ELSE IF pressed = last_key_pressed
       THEN /\ scan_result' = <<"None">>
            /\ broken' = (broken \/ pressed # reported)
            /\ UNCHANGED <<last_key_time, last_key_pressed, reported, since_report>>
       ELSE /\ last_key_pressed' = pressed
            /\ last_key_time' = current_time
            /\ scan_result' = pressed
            /\ reported' = pressed
            /\ since_report' = 0
            /\ broken' = FALSE
    /\ UNCHANGED <<ticks, held>>
    /\ OutsideKeypad

KeypadNext ==
    \/ keys_change
    \/ time_passes
    \/ scan_keypad_debounced

KeypadSpec == KeypadInit /\ [][KeypadNext]_all_vars

----------------------------------------------------------------------------
(* Properties *)

active_marker_version == get_version(fs, version_file)
staging_marker_version == get_version(fs, staging_marker)
installed_marker == main_dir \o <<".version">>

\* A step that removes or adds anything in the active directory
ActiveDirChanges ==
    \/ (main_dir \in DOMAIN fs) # (main_dir \in DOMAIN fs')
    \/ Subtree(fs, main_dir) # Subtree(fs', main_dir)

\* C1: every step of the swap (each removal below the active directory, the
\* removal of the directory, the rename of staging onto it) is taken in a
\* state whose staging marker version is strictly greater than the version
\* of the active marker.
C1_SwapOnlyWhenNewer ==
    [][ActiveDirChanges =>
          /\ staging_marker \in DOMAIN fs
          /\ StrGT(staging_marker_version, active_marker_version)]_vars

\* C1 witness: from active 1.0.0 and staging 1.1.0 the swap has been done.
C1_Witness ==
    /\ pc = "reset"
    /\ active_marker_version = V100
    /\ get_version(fs, installed_marker) = V110

\* C2: once the swap is done, the active marker reads the version the
\* staging marker held, which the rename has carried into the active
\* directory.
C2_ActiveMarkerFollowsSwap ==
    pc = "reset" => active_marker_version = get_version(fs, installed_marker)

\* C3: every step of a download_and_install_update_if_available call whose
\* remote version is not strictly greater than the active version fetches
\* nothing more, writes nothing, triggers no restart, and the call returns
\* false.
C3_StaleRemoteIsLeftAlone ==
    [][(/\ op = "download_and_install"
        /\ pc # "idle"
        /\ ~StrGT(latest_version, current_version))
       => (/\ fs' = fs
           /\ effects' = {}
           /\ (pc' = "idle" => result' \in {"false", "power_loss"}))]_vars

\* C4: a check_for_update_to_install_during_next_reboot called after a
\* power loss that cut an install (staging marker written and newer, restart
\* not yet triggered) ends with the restart, the staged tree as the active
\* directory and no staging directory.
C4_ResumeCompletesCutInstall ==
    (/\ pc = "idle"
     /\ op = "resume"
     /\ staged.cut
     /\ result \notin {"pending", "power_loss"})
    => (/\ result = "reset"
        /\ new_version_dir \notin DOMAIN fs
        /\ main_dir \in DOMAIN fs
        /\ Subtree(fs, main_dir) = staged.tree)

\* The staging directory holds entries but no marker
StagingWithoutMarker(f) ==
    /\ new_version_dir \in DOMAIN f
    /\ Under(f, new_version_dir) # {}
    /\ staging_marker \notin DOMAIN f

\* C5: check_for_update_to_install_during_next_reboot called on a staging
\* directory that holds files but no marker returns false at once and
\* leaves the whole filesystem as it was, without a restart.
C5_UnmarkedStagingIgnored ==
    [][(check_for_update_to_install_during_next_reboot /\ StagingWithoutMarker(fs))
       => (/\ fs' = fs
           /\ pc' = "idle"
           /\ result' = "false"
           /\ effects' = {})]_vars

\* C5 witness: the call has returned false over an unmarked staging directory.
C5_Witness ==
    /\ pc = "idle"
    /\ op = "resume"
    /\ result = "false"
    /\ StagingWithoutMarker(fs)

Destructive == {"delete", "rename", "restart"}

C7_SwapReplacesActiveTree ==
    [][("rename" \notin effects /\ "rename" \in effects')
       => (/\ new_version_dir \notin DOMAIN fs'
           /\ Under(fs', new_version_dir) = {}
           /\ main_dir \in DOMAIN fs'
           /\ fs'[main_dir].kind = "dir"
           /\ Subtree(fs', main_dir) = Subtree(fs, new_version_dir))]_vars

\* C7 witness: after the swap of a nested old tree the active directory
\* holds the nested staged file and nothing of the old tree.
C7_Witness ==
    /\ pc = "reset"
    /\ main_dir \o FileB \in DOMAIN fs
    /\ main_dir \o <<"dir", "sub">> \notin DOMAIN fs

\* C8: check_for_update, served a good version document, returns true
\* exactly when the remote version is strictly greater than the active
\* version, and in every case leaves the filesystem as it was and triggers
\* no restart.
C8_CheckForUpdateIsPure ==
    [][check_for_update
       => (/\ fs' = fs
           /\ pc' = "idle"
           /\ effects' \cap Destructive = {}
           /\ (remote.doc = "ok" =>
                 /\ result' \in {"true", "false"}
                 /\ (result' = "true") = StrGT(remote.release, active_marker_version)))]_vars

\* C8 witness: check_for_update has returned true over active 1.0.0.
C8_Witness ==
    /\ pc = "idle"
    /\ op = "check_for_update"
    /\ result = "true"
    /\ prev.op = "none"
    /\ active_marker_version = V100

\* C9: a staging marker is never present together with release files
\* written after it.
C9_MarkerMeansComplete == staging_marker \in DOMAIN fs => ~dirty

\* C10 as stated: a call of check_for_update or of
\* download_and_install_update_if_available served a bad version document
\* returns false and changes nothing.
C10_BadDocumentMeansNoUpdate ==
    [][((check_for_update \/ download_and_install_update_if_available)
        /\ remote.doc # "ok")
       => (/\ result' = "false"
           /\ pc' = "idle"
           /\ fs' = fs
           /\ effects' = {})]_vars

\* C10 amended: such a call raises to its caller, having fetched no file
\* list and no file, written nothing and triggered no restart.
C10_BadDocumentRaises ==
    [][((check_for_update \/ download_and_install_update_if_available)
        /\ remote.doc # "ok")
       => (/\ result' = "raised"
           /\ pc' = "idle"
           /\ fs' = fs
           /\ effects' = {})]_vars

\* C10 witness: download_and_install_update_if_available has raised on a
\* bad version document.
C10_Witness ==
    /\ pc = "idle"
    /\ op = "download_and_install"
    /\ result = "raised"
    /\ effects = {}
    /\ remote.doc # "ok"
    /\ remote_changes = 0

\* The file at path is missing, cannot be read as a file, is no JSON
\* document, or is a document without the version field
NoReadableVersion(f, path) ==
    \/ path \notin DOMAIN f
    \/ f[path].kind # "file"
    \/ ujson_loads(f[path].data).err # "none"
    \/ KeyVersion \notin DOMAIN ujson_loads(f[path].data).dict

\* C11: get_version called on a file that is missing, unreadable, no JSON or
\* without the version field returns '0.0.0' and does not raise; and
\* check_for_update, called while the active marker is such a file, returns
\* true for every remote version greater than '0.0.0'.
C11_UnreadableMarkerReadsAsMinimum ==
    [][/\ \A path \in MarkerPaths :
            (get_version_call(path) /\ NoReadableVersion(fs, path))
            => (result' = "returned" /\ current_version' = V000)
       /\ (/\ check_for_update
           /\ NoReadableVersion(fs, version_file)
           /\ remote.doc = "ok"
           /\ StrGT(remote.release, V000))
          => result' = "true"]_vars

\* check_for_update has answered true over an active marker that is there
\* but holds no version
C11_Witness ==
    /\ op = "check_for_update"
    /\ result = "true"
    /\ version_file \in DOMAIN fs
    /\ NoReadableVersion(fs, version_file)

\* C12: get_version called on the staging marker right after
\* create_version_file(T) returns exactly T, for every token T, the ones that
\* ujson.dumps has to escape included.
C12_MarkerRoundTrip ==
    [][(get_version_call(staging_marker) /\ op = "create_version_file")
       => current_version' = latest_version]_vars

\* A token holding a quote and a backslash has been written and read back
C12_Witness ==
    /\ op = "get_version"
    /\ current_version = <<"\"", "\\">>
    /\ latest_version = <<"\"", "\\">>

\* The file of the entry in turn is not in the staging directory
EntryMissing(f) == new_version_dir \o file_list[idx] \notin DOMAIN f

\* The loop of download_all_files goes on to the entry after the one in turn,
\* or to create_version_file after the last one
NextEntryInOrder ==
    /\ idx' = idx + 1
    /\ file_list' = file_list
    /\ pc' = IF idx < Len(file_list) THEN "download_file" ELSE "create_version_file"

\* C13 as claimed: a turn of download_file that leaves the file of its entry
\* missing, because the GET returned another status than 200 or failed at
\* transport level, is followed by the next entry in manifest order, or by
\* the writing of the staging marker after the last entry.
C13_FailedEntryIsSkipped ==
    [][(download_file /\ EntryMissing(fs'))
       => (fs' = fs /\ NextEntryInOrder)]_vars

\* C13 as amended: a turn whose GET returned another status than 200 writes
\* nothing and is followed by the next entry in manifest order, or by the
\* writing of the staging marker after the last entry; a turn whose GET
\* failed at transport level writes nothing and ends the call with the
\* exception, so that no later entry is requested and no marker is written;
\* and create_version_file writes the marker whatever entries are missing.
C13_StatusSkippedTransportRaises ==
    [][/\ (download_file /\ EntryMissing(fs'))
          => /\ fs' = fs
             /\ IF "transport_error" \in effects'
                THEN pc' = "idle" /\ result' = "raised" /\ "marker_write" \notin effects'
                ELSE NextEntryInOrder
       /\ create_version_file => staging_marker \in DOMAIN fs']_vars

\* The marker of a newer release has been written over a staging directory
\* that lacks a file of the manifest
C13_Witness ==
    /\ pc = "compare"
    /\ "marker_write" \in effects
    /\ new_version_dir \o FileA \notin DOMAIN fs
    /\ new_version_dir \o FileB \in DOMAIN fs
    /\ file_list = <<FileA, FileB>>
    /\ newer(latest_version, current_version)

\* C14: in a download cycle the staging marker is not written by the cycle
\* while a manifest entry is still to be requested: the marker is written
\* once the loop is past the last entry, and it then holds the version the
\* cycle fetched.
C14_MarkerAfterLastEntry ==
    /\ pc \in {"get_file_list", "download_file"} => "marker_write" \notin effects
    /\ pc = "create_version_file" =>
          (idx = Len(file_list) + 1 /\ "marker_write" \notin effects)
    /\ pc = "compare" =>
          /\ "marker_write" \in effects
          /\ idx = Len(file_list) + 1
          /\ staging_marker \in DOMAIN fs
          /\ staging_marker_version = latest_version

\* The marker of release 1.1.0 has been written after the two files of its
\* manifest
C14_Witness ==
    /\ pc = "compare"
    /\ file_list = <<FileA, FileB>>
    /\ idx = 3
    /\ staging_marker_version = V110
    /\ \A file \in {FileA, FileB} :
          /\ new_version_dir \o file \in DOMAIN fs
          /\ fs[new_version_dir \o file] = File(<<Raw(V110)>>)

\* The files in the staging directory
StagedFiles(f) == {p \in Under(f, new_version_dir) : f[p].kind = "file"}

\* A file in the staging directory is empty: the trace of a cycle that
\* ended on a failed write, the only step that leaves such a file
CutByWriteFailure(f) == \E p \in StagedFiles(f) : f[p].data = <<>>

\* C15: when a download cycle has written its marker, after an earlier cycle
\* was cut by a failed write, every file in the staging directory is the
\* marker or a file of the manifest of this cycle.
C15_CycleOverwritesLeftovers ==
    (pc = "compare" /\ CutByWriteFailure(fs))
    => StagedFiles(fs) \subseteq
          {staging_marker} \cup {new_version_dir \o file_list[i] : i \in 1..Len(file_list)}

\* C16: the step after a rename of the staging directory onto the active one
\* is the restart, which reads and writes no file; the restart ends the call,
\* so that an install restarts the device once; and a device that restarts
\* has renamed in the same call.  A power loss at that point restarts the
\* device as well.
C16_RestartFollowsSwap ==
    /\ [][("rename" \in effects' /\ "rename" \notin effects) => pc' = "reset"]_vars
    /\ [][pc = "reset" =>
            /\ pc' = "idle"
            /\ fs' = fs
            /\ result' \in {"reset", "power_loss"}
            /\ result' = "reset" => ("restart" \in effects' /\ "restart" \notin effects)]_vars
    /\ [][("restart" \in effects' /\ "restart" \notin effects)
          => (pc = "reset" /\ "rename" \in effects)]_vars

\* An install started by download_and_install_update_if_available has
\* renamed and restarted
C16_Witness ==
    /\ op = "download_and_install"
    /\ pc = "idle"
    /\ result = "reset"
    /\ {"rename", "restart"} \subseteq effects
    /\ new_version_dir \notin DOMAIN fs

\* No staging directory, no staging marker, or a staging version that is not
\* strictly greater than the active version
NothingToInstall(f) ==
    \/ new_version_dir \notin DOMAIN f
    \/ staging_marker \notin DOMAIN f
    \/ ~StrGT(get_version(f, staging_marker), get_version(f, version_file))

\* C17: install_update_if_available, called without a staging directory,
\* without a staging marker or with a staging version not strictly greater
\* than the active version, returns at once: nothing in the filesystem
\* changes (active directory, active marker, staging directory, staging
\* marker), nothing is deleted or renamed and no restart is triggered.
C17_NoInstallNoEffect ==
    [][(install_update_if_available /\ NothingToInstall(fs))
       => (/\ fs' = fs
           /\ pc' = "idle"
           /\ result' \in {"none", "true"}
           /\ effects' \cap Destructive = {})]_vars

\* install_update_if_available, called on its own, has returned over a
\* staging directory whose marker holds the active version
C17_Witness ==
    /\ op = "install"
    /\ pc = "idle"
    /\ result = "none"
    /\ staging_marker \in DOMAIN fs
    /\ version_file \in DOMAIN fs
    /\ staging_marker_version = <<"1">>
    /\ active_marker_version = <<"1">>
    /\ effects = {}

\* C18: once the write of a release file has failed in a call of
\* download_and_install_update_if_available, the call is over and has
\* raised: no later entry is requested, the call has written no staging
\* marker, has renamed nothing and has not restarted the device.
C18_WriteFailureEndsCycle ==
    "write_error" \in effects
    => (/\ op = "download_and_install"
        /\ pc = "idle"
        /\ result = "raised"
        /\ effects \cap {"marker_write", "delete", "rename", "restart"} = {}
        /\ dirty)

\* The write of the first of two release files has failed: the second one
\* is not in the staging directory, and no marker is
C18_Witness ==
    /\ "write_error" \in effects
    /\ result = "raised"
    /\ remote.files = <<FileA, FileB>>
    /\ new_version_dir \o FileA \in DOMAIN fs
    /\ new_version_dir \o FileB \notin DOMAIN fs
    /\ staging_marker \notin DOMAIN fs

\* C19: a call of download_and_install_update_if_available that follows one
\* which installed the remote release and restarted the device, the remote
\* release being the same throughout, renames nothing and does not restart.
C19_InstalledReleaseIsLeftAlone ==
    (/\ op = "download_and_install"
     /\ prev.op = "download_and_install"
     /\ prev.result = "reset"
     /\ prev.renamed
     /\ remote_changes = 0)
    => effects \cap {"delete", "rename", "restart"} = {}

\* C20: when install_update_if_available starts on the active directory to
\* replace it by the staging directory, the version of the marker in the
\* active directory is not greater than the version of the staging marker
\* that takes its place.
C20_NoDowngrade ==
    (/\ pc = "rmtree"
     /\ stack = <<main_dir>>
     /\ installed_marker \in DOMAIN fs
     /\ staging_marker \in DOMAIN fs)
    => ~StrGT(get_version(fs, installed_marker), staging_marker_version)

SendFailed ==
    \/ answer.kind \in {"no_wifi", "raised"}
    \/ answer.kind = "status" /\ ~(answer.code >= 200 /\ answer.code <= 299)

\* A step inside send_data_to_api that changes data.json follows a 2xx answer
\* to the POST of the data read, and clears the file
ChangeFollowsSuccess ==
    main_pc \in {"send_data_to_api", "connect_wifi", "post", "clear"}
        /\ data_json' # data_json
    => /\ answer.kind = "status"
       /\ answer.code >= 200 /\ answer.code <= 299
       /\ data_json = DumpOf(payload)
       /\ data_json'.entries = <<>>

\* C22: send_data_to_api changes data.json only in the step that follows a
\* 2xx answer to the POST of the data it read from the file; when the Wi-Fi
\* connection fails, the POST raises or the status is outside 200..299, it
\* returns false and data.json still holds the data it read
C22_ClearedOnlyAfterSuccess ==
    /\ [][ChangeFollowsSuccess]_all_vars
    /\ [](main_pc = "sent" /\ SendFailed
          => returned = "false" /\ data_json = DumpOf(payload) /\ payload # <<>>)

\* Two entries were posted, the API answered 299 and the file was cleared
C22_Witness ==
    /\ main_pc = "sent"
    /\ answer = [kind |-> "status", code |-> 299]
    /\ Len(payload) = 2
    /\ data_json = DumpOf(<<>>)
    /\ returned = "true"

\* The API answered 500 to the POST of two entries
C22_WitnessFailure ==
    /\ main_pc = "sent"
    /\ answer = [kind |-> "status", code |-> 500]
    /\ Len(payload) = 2
    /\ returned = "false"

\* A call of scan_keypad_debounced has just returned a key
KeyReturned == scan_result' # <<>> /\ scan_result' # <<"None">>

\* C23: scan_keypad_debounced reports a held key once: a call returns the key
\* it reported last only if a scan since that report has observed no key or
\* another key, and no call returns a key less than DEBOUNCE_TIME_MS after a
\* press was reported
C23_HeldKeyReportedOnce ==
    [][KeyReturned
        => /\ scan_result' = reported => broken
           /\ reported # <<>> => since_report >= DEBOUNCE_TIME_MS]_all_vars

\* Key 4 was reported and is still held alone; the debounce time is over and
\* a scan has just run and returned None
C23_Witness ==
    /\ scan_result = <<"None">>
    /\ held = {"4"}
    /\ reported = <<"4">>
    /\ last_key_pressed = <<"4">>
    /\ ~broken
    /\ since_report >= DEBOUNCE_TIME_MS
    /\ ~debounced(ticks, last_key_time)

============================================================================
